---- MODULE Spec2Model ----
(***************************************************************************)
(* Push-relabel maximum flow (FIFO selection, gap heuristic), modelled     *)
(* from src/push-relabel.cpp: class PushRelabel.  A behaviour builds a     *)
(* graph with addEdge calls and then runs one getMaxFlow(s, t) call, one   *)
(* step per loop iteration of the code (one push, one gap, one relabel).   *)
(* Vectors are 0-based functions; adjacency lists are sequences, so an     *)
(* index i of the code is i + 1 here (Edge.rev included).                  *)
(***************************************************************************)
EXTENDS Integers, Sequences, FiniteSets

\* Bounds of the explored inputs.
MaxN == 3
MaxCalls == 3
MaxCap == 2
\* The solver's invariants are also explored on graphs of up to MaxSolveN
\* vertices, there with the source and sink the drivers pass: 0 and n - 1.
MaxSolveN == 4

VARIABLES
    n,        \* PushRelabel::n
    adj,      \* PushRelabel::adj
    excess,   \* PushRelabel::excess
    dist,     \* PushRelabel::dist
    count,    \* PushRelabel::count (2 * n entries)
    active,   \* PushRelabel::active
    Q,        \* PushRelabel::Q
    pc,       \* position of the caller / of getMaxFlow
    s,        \* getMaxFlow's argument s
    t,        \* getMaxFlow's argument t
    u,        \* the vertex popped by the main loop and being discharged
    it,       \* position of the running range-for in adj[s] / adj[u]
    flow,     \* the value getMaxFlow returns
    outcome,  \* "none" | "value" (getMaxFlow returned flow) | "crash"
    calls     \* the addEdge calls made so far, <<u, v, cap>> each

vars == <<n, adj, excess, dist, count, active, Q, pc, s, t, u, it, flow, outcome, calls>>

V == 0 .. (n - 1)

Min(a, b) == IF a <= b THEN a ELSE b

Max(a, b) == IF a >= b THEN a ELSE b

\* struct Edge
Edge(to, rev, fl, cap) == [to |-> to, rev |-> rev, flow |-> fl, cap |-> cap]

\* The solver's fields as one value, so that the methods are operators on it.
State == [adj |-> adj, excess |-> excess, dist |-> dist, count |-> count,
          active |-> active, Q |-> Q]

Becomes(S) ==
    /\ adj' = S.adj
    /\ excess' = S.excess
    /\ dist' = S.dist
    /\ count' = S.count
    /\ active' = S.active
    /\ Q' = S.Q

\* PushRelabel::add_edge_internal
add_edge_internal(a, x, y, cap) ==
    LET a1 == [a EXCEPT ![x] = Append(@, Edge(y, Len(a[y]) + 1, 0, cap))]
    IN  [a1 EXCEPT ![y] = Append(@, Edge(x, Len(a1[x]), 0, 0))]

\* addEdge without the u == v test
addEdgeNoGuard(a, x, y, cap) == add_edge_internal(a, x, y, cap)

\* PushRelabel::addEdge
addEdge(a, x, y, cap) == IF x = y THEN a ELSE add_edge_internal(a, x, y, cap)

\* enqueue without the active test
enqueueNoActive(S, v) ==
    IF S.excess[v] > 0
    THEN [S EXCEPT !.active[v] = TRUE, !.Q = Append(@, v)]
    ELSE S

\* PushRelabel::enqueue
enqueue(S, v) ==
    IF ~S.active[v] /\ S.excess[v] > 0
    THEN [S EXCEPT !.active[v] = TRUE, !.Q = Append(@, v)]
    ELSE S

\* amt without the residual capacity: the whole excess is sent
pushAmtWholeExcess(S, x, j) == S.excess[x]

\* amt of PushRelabel::push
pushAmt(S, x, j) == Min(S.excess[x], S.adj[x][j].cap - S.adj[x][j].flow)

\* The early return without the height test
pushBlockedNoHeight(S, x, j) == pushAmt(S, x, j) = 0

\* The early return of PushRelabel::push
pushBlocked(S, x, j) ==
    S.dist[x] <= S.dist[S.adj[x][j].to] \/ pushAmt(S, x, j) = 0

\* The updates with the excess of x left as it was
pushApplyKeepsExcess(S, x, j, amt) ==
    LET e == S.adj[x][j]
        S1 == [S EXCEPT !.adj[x][j].flow = @ + amt]
        S2 == [S1 EXCEPT !.adj[e.to][e.rev].flow = @ - amt]
    IN  [S2 EXCEPT !.excess[e.to] = @ + amt]

\* The updates without the one of the partner arc
pushApplyNoReverse(S, x, j, amt) ==
    LET e == S.adj[x][j]
        S1 == [S EXCEPT !.adj[x][j].flow = @ + amt]
        S3 == [S1 EXCEPT !.excess[x] = @ - amt]
    IN  [S3 EXCEPT !.excess[e.to] = @ + amt]

\* The flow and excess updates of PushRelabel::push
pushApply(S, x, j, amt) ==
    LET e == S.adj[x][j]
        S1 == [S EXCEPT !.adj[x][j].flow = @ + amt]
        S2 == [S1 EXCEPT !.adj[e.to][e.rev].flow = @ - amt]
        S3 == [S2 EXCEPT !.excess[x] = @ - amt]
    IN  [S3 EXCEPT !.excess[e.to] = @ + amt]

\* push that does not enqueue the destination
pushNoEnqueue(S, x, j) ==
    IF pushBlocked(S, x, j) THEN S ELSE pushApply(S, x, j, pushAmt(S, x, j))

\* PushRelabel::push on the arc adj[x][j]
push(S, x, j) ==
    IF pushBlocked(S, x, j)
    THEN S
    ELSE enqueue(pushApply(S, x, j, pushAmt(S, x, j)), S.adj[x][j].to)

\* The gap iteration that lifts nothing: the vertex is only re-enqueued
gapVertexKeepsHeight(S, k, v) == IF S.dist[v] < k THEN S ELSE enqueue(S, v)

\* The gap iteration with the histogram left alone
gapVertexNoCount(S, k, v) ==
    IF S.dist[v] < k
    THEN S
    ELSE enqueue([S EXCEPT !.dist[v] = Max(S.dist[v], n + 1)], v)

\* One iteration of the loop of PushRelabel::gap, for vertex v
gapVertex(S, k, v) ==
    IF S.dist[v] < k
    THEN S
    ELSE LET d == Max(S.dist[v], n + 1)
             S1 == [S EXCEPT !.count[S.dist[v]] = @ - 1]
             S2 == [S1 EXCEPT !.dist[v] = d]
             S3 == [S2 EXCEPT !.count[d] = @ + 1]
         IN  enqueue(S3, v)

RECURSIVE gapFrom(_, _, _)
\* The loop of PushRelabel::gap from vertex v on
gapFrom(S, k, v) == IF v >= n THEN S ELSE gapFrom(gapVertex(S, k, v), k, v + 1)

\* PushRelabel::gap
gap(S, k) == gapFrom(S, k, 0)

RECURSIVE relabelScan(_, _, _, _)
\* The loop of PushRelabel::relabel: d after the arcs adj[x][j ..]
relabelScan(S, x, j, d) ==
    IF j > Len(S.adj[x])
    THEN d
    ELSE LET e == S.adj[x][j]
         IN  relabelScan(S, x, j + 1,
                         IF e.cap - e.flow > 0 THEN Min(d, S.dist[e.to] + 1) ELSE d)

\* The new height with max in place of min
relabelDistMax(S, x) ==
    LET R == {S.dist[S.adj[x][j].to] + 1 :
                  j \in {k \in 1 .. Len(S.adj[x]) : S.adj[x][k].cap - S.adj[x][k].flow > 0}}
    IN  IF R = {} THEN 2 * n ELSE CHOOSE d \in R : \A e \in R : e <= d

\* The new height taken over all arcs, saturated ones included
relabelDistAllArcs(S, x) ==
    LET R == {S.dist[S.adj[x][j].to] + 1 : j \in 1 .. Len(S.adj[x])}
    IN  IF R = {} THEN 2 * n ELSE CHOOSE d \in R : \A e \in R : d <= e

\* The height PushRelabel::relabel gives x
\* relabel without the scan of the arcs: the height is the fallback 2n
relabelDistFallback(S, x) == 2 * n

relabelDist(S, x) == relabelScan(S, x, 1, 2 * n)

\* relabel with the new height lost: the vertex is only re-enqueued
relabelKeepsHeight(S, x) == enqueue(S, x)

\* PushRelabel::relabel
relabel(S, x) ==
    LET d == relabelDist(S, x)
        S1 == [S EXCEPT !.count[S.dist[x]] = @ - 1]
        S2 == [S1 EXCEPT !.dist[x] = d]
        S3 == [S2 EXCEPT !.count[d] = @ + 1]
    IN  enqueue(S3, x)

RECURSIVE sumFlowForward(_, _)
\* The summation with the backward records (negative flow) left out
sumFlowForward(es, j) ==
    IF j > Len(es)
    THEN 0
    ELSE (IF es[j].flow > 0 THEN es[j].flow ELSE 0) + sumFlowForward(es, j + 1)

RECURSIVE sumFlow(_, _)
\* The summation loop that ends PushRelabel::getMaxFlow, from arc j on
sumFlow(es, j) == IF j > Len(es) THEN 0 ELSE es[j].flow + sumFlow(es, j + 1)

----------------------------------------------------------------------------

\* The state the constructor leaves, for a graph of up to k vertices
Fresh(k) ==
    /\ n \in 0 .. k
    /\ adj = [v \in 0 .. (n - 1) |-> <<>>]
    /\ excess = [v \in 0 .. (n - 1) |-> 0]
    /\ dist = [v \in 0 .. (n - 1) |-> 0]
    /\ count = [h \in 0 .. (2 * n - 1) |-> 0]
    /\ active = [v \in 0 .. (n - 1) |-> FALSE]
    /\ Q = <<>>
    /\ pc = "build"
    /\ s = -1
    /\ t = -1
    /\ u = -1
    /\ it = 0
    /\ flow = 0
    /\ outcome = "none"
    /\ calls = <<>>

Init == Fresh(MaxN)

\* A call addEdge(x, y, cap) on the graph under construction
AddEdge(x, y, cap) ==
    /\ pc = "build"
    /\ Len(calls) < MaxCalls
    /\ calls' = Append(calls, <<x, y, cap>>)
    /\ adj' = addEdge(adj, x, y, cap)
    /\ UNCHANGED <<n, excess, dist, count, active, Q, pc, s, t, u, it, flow, outcome>>

\* What an out-of-range vector access leaves behind: the run is undefined, it
\* may crash or return any value.
Undefined ==
    /\ pc' = "undefined"
    /\ outcome' \in {"crash", "value"}
    /\ flow' \in IF outcome' = "crash" THEN {0} ELSE 0 .. 1

\* The entry of getMaxFlow(s0, t0): the labelling set-up before the first loop
GetMaxFlow(s0, t0) ==
    /\ pc = "build"
    /\ s0 \in V /\ t0 \in V => s0 # t0
    /\ s' = s0
    /\ t' = t0
    /\ UNCHANGED <<n, adj, excess, Q, u, calls>>
    /\ IF s0 \in V /\ t0 \in V
       THEN /\ count' = [count EXCEPT ![0] = n - 1, ![n] = 1]
            /\ dist' = [dist EXCEPT ![s0] = n]
            /\ active' = [active EXCEPT ![s0] = TRUE, ![t0] = TRUE]
            /\ pc' = "init"
            /\ it' = 1
            /\ UNCHANGED <<flow, outcome>>
       ELSE /\ count' = IF n = 0 THEN count ELSE [count EXCEPT ![0] = n - 1, ![n] = 1]
            /\ dist' = IF n > 0 /\ s0 \in V THEN [dist EXCEPT ![s0] = n] ELSE dist
            /\ active' = IF n > 0 /\ s0 \in V THEN [active EXCEPT ![s0] = TRUE] ELSE active
            /\ it' = it
            /\ Undefined

\* One iteration of the preflow loop over adj[s]
InitPush ==
    /\ pc = "init"
    /\ it <= Len(adj[s])
    /\ Becomes(push([State EXCEPT !.excess[s] = @ + adj[s][it].cap], s, it))
    /\ it' = it + 1
    /\ UNCHANGED <<n, pc, s, t, u, flow, outcome, calls>>

\* The preflow loop is over
InitDone ==
    /\ pc = "init"
    /\ it > Len(adj[s])
    /\ pc' = "loop"
    /\ UNCHANGED <<n, adj, excess, dist, count, active, Q, s, t, u, it, flow, outcome, calls>>

\* The head of one iteration of the main loop: pop, and skip s and t
Pop ==
    /\ pc = "loop"
    /\ Q # <<>>
    /\ u' = Head(Q)
    /\ Q' = Tail(Q)
    /\ active' = [active EXCEPT ![Head(Q)] = FALSE]
    /\ pc' = IF Head(Q) = s \/ Head(Q) = t THEN "loop" ELSE "discharge"
    /\ it' = 1
    /\ UNCHANGED <<n, adj, excess, dist, count, s, t, flow, outcome, calls>>

\* One iteration of the loop of discharge(u)
DischargePush ==
    /\ pc = "discharge"
    /\ it <= Len(adj[u])
    /\ excess[u] > 0
    /\ Becomes(push(State, u, it))
    /\ it' = it + 1
    /\ UNCHANGED <<n, pc, s, t, u, flow, outcome, calls>>

LoopOver == it > Len(adj[u]) \/ excess[u] <= 0

\* discharge(u) ends with no excess left
DischargeDone ==
    /\ pc = "discharge"
    /\ LoopOver
    /\ excess[u] <= 0
    /\ pc' = "loop"
    /\ UNCHANGED <<n, adj, excess, dist, count, active, Q, s, t, u, it, flow, outcome, calls>>

\* discharge(u) ends in gap(dist[u])
DischargeGap ==
    /\ pc = "discharge"
    /\ LoopOver
    /\ excess[u] > 0
    /\ dist[u] \in DOMAIN count
    /\ count[dist[u]] = 1
    /\ Becomes(gap(State, dist[u]))
    /\ pc' = "loop"
    /\ UNCHANGED <<n, s, t, u, it, flow, outcome, calls>>

\* discharge(u) ends in relabel(u); a height of 2 * n or more is no index of count
DischargeRelabel ==
    /\ pc = "discharge"
    /\ LoopOver
    /\ excess[u] > 0
    /\ dist[u] \in DOMAIN count
    /\ count[dist[u]] # 1
    /\ UNCHANGED <<n, s, t, u, it, calls>>
    /\ IF relabelDist(State, u) \in DOMAIN count
       THEN /\ Becomes(relabel(State, u))
            /\ pc' = "loop"
            /\ UNCHANGED <<flow, outcome>>
       ELSE /\ UNCHANGED <<adj, excess, active, Q>>
            /\ count' = [count EXCEPT ![dist[u]] = @ - 1]
            /\ dist' = [dist EXCEPT ![u] = relabelDist(State, u)]
            /\ Undefined

\* The main loop is over: sum the flow over adj[s] and return it
Finish ==
    /\ pc = "loop"
    /\ Q = <<>>
    /\ flow' = sumFlow(adj[s], 1)
    /\ outcome' = "value"
    /\ pc' = "done"
    /\ UNCHANGED <<n, adj, excess, dist, count, active, Q, s, t, u, it, calls>>

Build == \E x \in V, y \in V, cap \in 0 .. MaxCap : AddEdge(x, y, cap)

Call == \E s0 \in -1 .. n, t0 \in -1 .. n : GetMaxFlow(s0, t0)

Solve ==
    \/ InitPush
    \/ InitDone
    \/ Pop
    \/ DischargePush
    \/ DischargeDone
    \/ DischargeGap
    \/ DischargeRelabel
    \/ Finish

Next == Build \/ Call \/ Solve

Spec == Init /\ [][Next]_vars

\* The calls within the contract: s and t in range and different
ValidCall == \E s0 \in V, t0 \in V : GetMaxFlow(s0, t0)

\* The addEdge calls that add arcs (a call with x = y leaves the graph as it is)
BuildArc == \E x \in V : \E y \in V \ {x}, cap \in 0 .. MaxCap : AddEdge(x, y, cap)

NextValid == BuildArc \/ ValidCall \/ Solve

\* The drivers (main, showRealWorldMenu) build the graph and then call
\* getMaxFlow, which is sequential code: the run keeps going.
FairSpec == Init /\ [][NextValid]_vars /\ WF_vars(NextValid)

\* The call the drivers make: getMaxFlow(0, nodes - 1)
DriverCall == n >= 2 /\ GetMaxFlow(0, n - 1)

\* Every call within the contract on the graphs of up to MaxN vertices, the
\* drivers' call on the larger ones
SolveCall == (n <= MaxN /\ ValidCall) \/ (n > MaxN /\ DriverCall)

NextSolve == BuildArc \/ SolveCall \/ Solve

\* The runs of the solver, called within the contract.
SolveSpec == Fresh(MaxSolveN) /\ [][NextSolve]_vars

----------------------------------------------------------------------------
(* Reference values, computed from the addEdge calls alone. *)

RECURSIVE cutCap(_, _)
\* The capacity of the cut (X, V \ X): the calls k .. that cross it
cutCap(X, k) ==
    IF k > Len(calls)
    THEN 0
    ELSE (IF calls[k][1] \in X /\ calls[k][2] \notin X THEN calls[k][3] ELSE 0)
         + cutCap(X, k + 1)

Cuts == {X \in SUBSET V : s \in X /\ t \notin X}

\* The maximum flow value, as the capacity of a minimum s-t cut
RefMaxFlow ==
    CHOOSE m \in {cutCap(X, 1) : X \in Cuts} : \A X \in Cuts : m <= cutCap(X, 1)

RECURSIVE reach(_, _)
\* The vertices reached from X along arcs of positive capacity, in k more rounds
reach(X, k) ==
    IF k = 0
    THEN X
    ELSE reach(X \cup {calls[c][2] : c \in {d \in 1 .. Len(calls) :
                                              calls[d][1] \in X /\ calls[d][3] > 0}},
               k - 1)

Connected == t \in reach({s}, n)

Solving == pc \in {"init", "loop", "discharge", "done"}

AfterPreflow == pc \in {"loop", "discharge", "done"}

\* The arc records: <<owner, position>>
Arcs == UNION {{<<v, j>> : j \in 1 .. Len(adj[v])} : v \in V}

arc(a) == adj[a[1]][a[2]]

partner(a) == adj[arc(a).to][arc(a).rev]

RECURSIVE fwdOut(_, _)
\* Total flow on the arcs of positive capacity leaving v, from position j on
fwdOut(v, j) ==
    IF j > Len(adj[v])
    THEN 0
    ELSE (IF adj[v][j].cap > 0 THEN adj[v][j].flow ELSE 0) + fwdOut(v, j + 1)

RECURSIVE fwdInFrom(_, _, _)
\* Total flow on the arcs of positive capacity from w into v, from position j on
fwdInFrom(w, v, j) ==
    IF j > Len(adj[w])
    THEN 0
    ELSE (IF adj[w][j].cap > 0 /\ adj[w][j].to = v THEN adj[w][j].flow ELSE 0)
         + fwdInFrom(w, v, j + 1)

RECURSIVE fwdIn(_, _)
\* Total flow on the arcs of positive capacity entering v, from owners w ..
fwdIn(v, w) == IF w >= n THEN 0 ELSE fwdInFrom(w, v, 1) + fwdIn(v, w + 1)

Outflow(v) == fwdOut(v, 1)

Inflow(v) == fwdIn(v, 0)

----------------------------------------------------------------------------
(* C1: on return, getMaxFlow(s, t) with in-range s # t gives the maximum   *)
(* s-t flow value of the graph built by the addEdge calls (the capacity of *)
(* a minimum cut), which is 0 when no path of positive-capacity arcs leads *)
(* from s to t.                                                            *)
C1_MaxFlow ==
    pc = "done" => /\ outcome = "value"
                   /\ flow = RefMaxFlow
                   /\ (~Connected => flow = 0)

\* A solve whose answer is positive yet below what the source sent out: some
\* vertex had to climb above the source and hand excess back.
C1_Witness ==
    /\ pc = "done"
    /\ flow > 0
    /\ flow = RefMaxFlow
    /\ \E v \in V \ {s, t} : dist[v] > n

C1_WitnessDisconnected == pc = "done" /\ ~Connected /\ calls # <<>> /\ flow = 0

(* C2: once getMaxFlow has set up the labelling, the run reaches the state *)
(* where the queue is empty and the value is returned.                     *)
C2_Terminates == n >= 2 => <>(pc = "done")

\* A finished solve in which some vertex was discharged, relabelled and
\* re-enqueued on the way.
C2_Witness ==
    /\ pc = "done"
    /\ \E v \in V \ {s, t} : dist[v] > 0 /\ excess[v] = 0
    /\ u \in V

(* C3: from the first step of the solve on, no arc record has negative     *)
(* residual capacity; an arc of positive capacity (a forward arc) carries  *)
(* 0 <= flow <= cap; a pair of capacity 0 carries no flow.                 *)
C3_Capacity ==
    \A a \in Arcs :
        /\ arc(a).cap - arc(a).flow >= 0
        /\ arc(a).cap > 0 => arc(a).flow >= 0
        /\ arc(a).cap = 0 /\ partner(a).cap = 0 => arc(a).flow = 0

\* A saturated arc next to a partly used one, mid-solve.
C3_Witness ==
    /\ AfterPreflow
    /\ \E a \in Arcs : arc(a).cap > 0 /\ arc(a).flow = arc(a).cap
    /\ \E a \in Arcs : arc(a).flow > 0 /\ arc(a).flow < arc(a).cap
    /\ \E a \in Arcs : arc(a).flow < 0

(* C4: on return, every vertex other than s and t has excess 0 and the     *)
(* flow entering it equals the flow leaving it.                            *)
C4_Conservation ==
    pc = "done" =>
        \A v \in V \ {s, t} : excess[v] = 0 /\ Inflow(v) = Outflow(v)

\* A finished solve with flow going through an inner vertex.
C4_Witness ==
    /\ pc = "done"
    /\ \E v \in V \ {s, t} : Inflow(v) > 0 /\ Outflow(v) = Inflow(v)

(* C5: the returned value (the sum of flow over all of adj[s]) is the net  *)
(* flow leaving s and the net flow entering t, which is t's excess.        *)
C5_FlowValue ==
    pc = "done" =>
        /\ flow = Outflow(s) - Inflow(s)
        /\ flow = Inflow(t) - Outflow(t)
        /\ flow = excess[t]

\* A finished solve with arcs into the source and out of the sink in play:
\* adj[s] then holds backward records too.
C5_Witness ==
    /\ pc = "done"
    /\ flow > 0
    /\ \E a \in Arcs : a[1] = s /\ arc(a).cap = 0
    /\ \E a \in Arcs : a[1] = t /\ arc(a).cap > 0

(* C6: after the preflow initialization, every arc record with positive    *)
(* residual capacity goes down by at most one level:                       *)
(* dist[owner] <= dist[to] + 1.                                            *)
C6_HeightValid ==
    AfterPreflow =>
        \A a \in Arcs :
            arc(a).cap - arc(a).flow > 0 => dist[a[1]] <= dist[arc(a).to] + 1

\* After a gap sweep and a relabel: a vertex above level n + 1 with a residual
\* arc exactly one level down.
C6_Witness ==
    /\ AfterPreflow
    /\ \E a \in Arcs :
           /\ arc(a).cap - arc(a).flow > 0
           /\ dist[a[1]] > n + 1
           /\ dist[a[1]] = dist[arc(a).to] + 1

(* C7: during the solve dist[s] = n and dist[t] = 0, and neither s nor t   *)
(* is ever discharged.                                                     *)
C7_SourceSinkFixed ==
    Solving => /\ dist[s] = n
               /\ dist[t] = 0
               /\ pc = "discharge" => u \notin {s, t}

(* C8: a getMaxFlow call with s or t outside 0 .. n - 1 does not solve: it *)
(* reads and writes no graph or labelling state and hands the caller an    *)
(* error that is no flow value.                                            *)
C8_ConfigError ==
    pc # "build" /\ (s \notin V \/ t \notin V) =>
        /\ outcome = "error"
        /\ \A h \in DOMAIN count : count[h] = 0
        /\ \A v \in V : dist[v] = 0 /\ ~active[v] /\ excess[v] = 0

(* C9: during the solve, count[h] is the number of vertices of height h,   *)
(* for every h.                                                            *)
C9_Histogram ==
    Solving =>
        \A h \in DOMAIN count : count[h] = Cardinality({v \in V : dist[v] = h})

\* After a gap sweep (level n emptied into n + 1) and a relabel above it.
C9_Witness ==
    /\ pc = "loop"
    /\ count[n] = 0
    /\ count[n + 1] >= 1
    /\ \E h \in DOMAIN count : h > n + 1 /\ count[h] = 1

RECURSIVE expectedArcs(_, _)
\* The <<to, cap>> of the records the first k addEdge calls leave in adj[x]:
\* nothing for a call with u = v, a record of its own for every other call
expectedArcs(x, k) ==
    IF k = 0
    THEN <<>>
    ELSE LET c == calls[k]
             prev == expectedArcs(x, k - 1)
         IN  IF c[1] = c[2] THEN prev
             ELSE IF c[1] = x THEN Append(prev, <<c[2], c[3]>>)
             ELSE IF c[2] = x THEN Append(prev, <<c[1], 0>>)
             ELSE prev

(* C10: addEdge(u, u, cap) changes no adjacency list, so no record points  *)
(* at its owner; every other call appends one forward record with its own  *)
(* capacity and one backward record of capacity 0, also when the same      *)
(* ordered pair was added before (capacities are not merged).              *)
C10_AddEdge ==
    \A x \in V :
        /\ \A j \in 1 .. Len(adj[x]) : adj[x][j].to # x
        /\ [j \in 1 .. Len(adj[x]) |-> <<adj[x][j].to, adj[x][j].cap>>]
               = expectedArcs(x, Len(calls))

\* A self-loop call and two calls for the same ordered pair have been made.
C10_Witness ==
    /\ \E k \in 1 .. Len(calls) : calls[k][1] = calls[k][2] /\ calls[k][3] > 0
    /\ \E k \in 1 .. Len(calls) : \E l \in (k + 1) .. Len(calls) :
           /\ calls[k][1] = calls[l][1]
           /\ calls[k][2] = calls[l][2]
           /\ calls[k][1] # calls[k][2]
           /\ calls[k][3] > 0
           /\ calls[l][3] > calls[k][3]
    /\ \E x \in V : Len(adj[x]) = 2

\* The positions of v in the queue
inQ(v) == {i \in 1 .. Len(Q) : Q[i] = v}

(* C11: between two iterations of the main loop (and when it ends), every  *)
(* vertex v other than s and t has active[v] exactly when it is in Q, is   *)
(* in Q at most once, and is in Q exactly when excess[v] > 0; s and t are  *)
(* never in Q at any point of the solve.                                   *)
C11_Queue ==
    /\ Solving => inQ(s) = {} /\ inQ(t) = {}
    /\ pc \in {"loop", "done"} =>
           \A v \in V \ {s, t} :
               /\ active[v] <=> inQ(v) # {}
               /\ Cardinality(inQ(v)) <= 1
               /\ inQ(v) # {} <=> excess[v] > 0

\* A relabelled vertex waits in the queue while flow has already reached t,
\* in a graph with an arc into s.
C11_Witness ==
    /\ pc = "loop"
    /\ Len(Q) >= 1
    /\ excess[t] > 0
    /\ \E v \in V \ {s, t} : dist[v] > 0 /\ inQ(v) # {}
    /\ \E a \in Arcs : arc(a).to = s /\ arc(a).cap > 0

\* A push is about to run: the vertex that pushes, and what it has to give
\* (the preflow loop first adds the arc's capacity to excess[s])
pusher == IF pc = "init" THEN s ELSE u

Pushing == (pc = "init" \/ (pc = "discharge" /\ excess[u] > 0)) /\ it <= Len(adj[pusher])

toGive == excess[pusher] + (IF pc = "init" THEN adj[pusher][it].cap ELSE 0)

(* C12: during the solve every vertex v other than s has excess[v] >= 0    *)
(* and excess[v] = (flow entering v) - (flow leaving v); a push on an arc  *)
(* either does nothing or moves exactly min(excess of the pusher, residual *)
(* of the arc) from the pusher to the arc's destination, adds it to the    *)
(* arc's flow, and changes no other excess.                                *)
C12_Excess ==
    /\ [](Solving =>
             \A v \in V \ {s} :
                 excess[v] >= 0 /\ excess[v] = Inflow(v) - Outflow(v))
    /\ [][Pushing =>
             LET e == adj[pusher][it]
                 amt == Min(toGive, e.cap - e.flow)
                 moved == IF dist[pusher] <= dist[e.to] THEN 0 ELSE amt
             IN  /\ excess'[pusher] = toGive - moved
                 /\ excess'[e.to] = excess[e.to] + moved
                 /\ adj'[pusher][it].flow = e.flow + moved
                 /\ \A w \in V \ {pusher, e.to} : excess'[w] = excess[w]]_vars

\* Mid-discharge, after a push that sent an arc's whole residual to t and
\* left the pusher with excess.
C12_Witness ==
    /\ pc = "discharge"
    /\ it > 1
    /\ excess[u] > 0
    /\ excess[t] > 0
    /\ \E a \in Arcs :
           a[1] = u /\ arc(a).to = t /\ arc(a).cap > 0 /\ arc(a).flow = arc(a).cap

\* discharge(u) returns: the step from its last statement back to the main loop
DischargeReturns == pc = "discharge" /\ pc' = "loop"

(* C13 as claimed: whenever discharge(u) returns, excess[u] = 0.           *)
C13_DischargeEmpties == [][DischargeReturns => excess'[u] = 0]_vars

(* C13 as amended: discharge(u) tries each arc of u once; when it returns, *)
(* either excess[u] = 0, or u still has excess, its height has been raised *)
(* (by relabel or by gap) and u is active and at the back of the queue.    *)
C13_DischargeReturn ==
    [][DischargeReturns =>
          \/ excess'[u] = 0
          \/ /\ excess'[u] = excess[u]
             /\ it > Len(adj[u])
             /\ dist'[u] > dist[u]
             /\ active'[u]
             /\ Q' # <<>>
             /\ Q'[Len(Q')] = u]_vars

\* discharge(u) has just returned leaving u with excess, raised and queued.
C13_Witness ==
    /\ pc = "loop"
    /\ u \in V
    /\ excess[u] > 0
    /\ dist[u] > 0
    /\ Q # <<>>
    /\ Q[Len(Q)] = u

\* discharge(u) is about to call relabel(u)
RelabelCalled ==
    pc = "discharge" /\ LoopOver /\ excess[u] > 0 /\ count[dist[u]] # 1

\* The destinations of the residual arcs of v
residualTo(v) ==
    {adj[v][j].to : j \in {k \in 1 .. Len(adj[v]) : adj[v][k].cap - adj[v][k].flow > 0}}

(* C14: whenever relabel(u) is called, excess[u] > 0 and no residual arc   *)
(* of u leads to a lower vertex; the call sets dist[u] to 1 + the least    *)
(* height among the destinations of u's residual arcs, which is more than  *)
(* dist[u] was, and puts u back in the queue.                              *)
C14_Relabel ==
    [][RelabelCalled =>
          /\ excess[u] > 0
          /\ \A w \in residualTo(u) : dist[w] >= dist[u]
          /\ residualTo(u) # {}
          /\ \E w \in residualTo(u) :
                 /\ dist'[u] = dist[w] + 1
                 /\ \A x \in residualTo(u) : dist[w] <= dist[x]
          /\ dist'[u] > dist[u]
          /\ \A w \in V \ {u} : dist'[w] = dist[w]
          /\ active'[u]
          /\ Q' = Append(Q, u)]_vars

\* Just relabelled: u is alone on a level above the source's, with excess,
\* queued, one level above the lowest end of its residual arcs.
C14_Witness ==
    /\ pc = "loop"
    /\ u \in V
    /\ excess[u] > 0
    /\ dist[u] > dist[s]
    /\ count[dist[u]] = 1
    /\ \E w \in residualTo(u) : dist[u] = dist[w] + 1
    /\ inQ(u) # {}

\* discharge(u) has gone through adj[u] and u still has excess
Stuck == pc = "discharge" /\ LoopOver /\ excess[u] > 0

(* C15: a discharge(u) that ends with excess[u] > 0 leaves dist[u] higher  *)
(* than it found it; when it calls gap(dist[u]) (u alone at its height),   *)
(* that height is at most n and the sweep puts u at n + 1.                 *)
C15_GapProgress ==
    [][Stuck =>
          /\ dist'[u] > dist[u]
          /\ count[dist[u]] = 1 => dist[u] <= n /\ dist'[u] = n + 1]_vars

\* Just after a gap sweep: u and the source share level n + 1, u has excess
\* and is queued.
C15_Witness ==
    /\ pc = "loop"
    /\ u \in V
    /\ excess[u] > 0
    /\ dist[u] = n + 1
    /\ dist[s] = n + 1
    /\ count[n + 1] = 2
    /\ inQ(u) # {}

\* C16: for every graph with n >= 2 and in-range source # sink, every height
\* stored during a solve (by the initialization, by relabel, by gap) is an index
\* of the histogram the constructor allocated, which has the 2n entries
\* 0 .. 2n - 1, so no histogram read or write is out of bounds (the solve never
\* reaches the undefined state); and no step of a solve lowers a height.
C16_HeightBound ==
    /\ [](/\ pc # "undefined"
          /\ DOMAIN count = 0 .. (2 * n - 1)
          /\ Solving => \A v \in V : dist[v] \in DOMAIN count)
    /\ [][/\ \A v \in V : dist'[v] >= dist[v]
          /\ RelabelCalled => relabelDist(State, u) \in DOMAIN count
          /\ (Stuck /\ ~RelabelCalled) => (n + 1) \in DOMAIN count]_vars

\* A vertex has reached the last index of the histogram, 2n - 1, after both a
\* gap sweep (the source was lifted to n + 1) and relabels above it.
C16_Witness ==
    /\ AfterPreflow
    /\ n >= 3
    /\ dist[s] = n + 1
    /\ \E v \in V \ {s, t} : dist[v] = 2 * n - 1 /\ count[2 * n - 1] = 1

residual(e) == e.cap - e.flow

\* C17: after any sequence of addEdge calls and in every state of a solve,
\* every arc record e stored at a vertex x has a partner adj[e.to][e.rev] whose
\* destination is x and whose rev is the position of e; the flows of the two
\* are additive inverses, so their residuals add up to their capacities.
\* (A call outside the contract whose behaviour is undefined leaves no state
\* to speak of.)
C17_ArcPairing ==
    pc # "undefined" =>
        \A a \in Arcs :
            LET e == arc(a)
            IN  /\ e.to \in V
                /\ e.rev \in 1 .. Len(adj[e.to])
                /\ partner(a).to = a[1]
                /\ partner(a).rev = a[2]
                /\ e.flow + partner(a).flow = 0
                /\ residual(e) + residual(partner(a)) = e.cap + partner(a).cap

\* Mid-solve, after a self-loop call was skipped: a vertex holds two records
\* to the same neighbour, one carrying flow forward and one carrying flow back.
C17_Witness ==
    /\ pc \in {"loop", "discharge"}
    /\ \E k \in 1 .. Len(calls) : calls[k][1] = calls[k][2]
    /\ \E a \in Arcs, b \in Arcs :
           /\ a[1] = b[1]
           /\ arc(a).to = arc(b).to
           /\ arc(a).flow > 0
           /\ arc(b).flow < 0

====
